---- MODULE Spec2Model ----
(***************************************************************************)
(* A model of dev/simulated_google.py: the in-memory simulator of the      *)
(* Drive HTTP API (item store, header check, query engine and the          *)
(* resumable upload state machine).                                        *)
(*                                                                         *)
(* JSON values are tagged pairs so that values of different Python types   *)
(* can be compared:                                                        *)
(*   <<"s", str>>  string        <<"n", int>>  integer                     *)
(*   <<"b", bool>> boolean       <<"l", seq>>  list                        *)
(*   <<"m", fcn>>  dict          <<"t", time>> formatted timestamp         *)
(*   <<"bytes", seq>> a bytearray, as the lengths of the chunks it was     *)
(*                    extended with, in order                              *)
(* A dict (an item, a request body, _upload_info) is a function whose      *)
(* DOMAIN is the set of its keys.                                          *)
(***************************************************************************)
EXTENDS Integers, Sequences, FiniteSets, TLC

(* ------------------------------ bounds -------------------------------- *)
\* how many ids generateId hands out (created items + upload sessions)
MaxIds == 2
\* how many times the access token is rotated
MaxTokens == 1
\* how many chunks one bytearray is extended with
MaxChunks == 2
\* how far the clock advances
MaxTime == 1
\* how many handlers of the progress endpoint are suspended at a time
MaxHandlers == 2
\* how far the pause hook counts, and the largest chunk it is told to wait on
MaxCalls == 2
\* how many times the pause hook signals
MaxSignals == 2

(* ------------------------- program constants -------------------------- *)
\* 256 * 1024, the chunk alignment unit
Alignment == 262144
\* 1024 * 1024 * 100, the space available after construction
DefaultSpace == 104857600

VARIABLES
    items,            \* self.items: id -> item
    lostPermission,   \* self.lostPermission
    space_available,  \* self.space_available
    upload_info,      \* self._upload_info
    auth_token,       \* self._auth_token; 0 is the empty string of __init__
    nextId,           \* how many ids generateId has handed out
    now,              \* self._time.now()
    commits,          \* history: the ids of the sessions that were committed
    req,              \* the request being answered in this step
    resp,             \* and the response to it
    refresh_token,    \* self._refresh_token; 0 is "test_refresh_token"
    waitOnChunk,      \* self._waitOnChunk
    current_chunk,    \* self._current_chunk
    upload_chunk_trigger,  \* self._upload_chunk_trigger is set
    upload_chunk_wait,     \* self._upload_chunk_wait is set
    signals,          \* history: how many times _upload_chunk_trigger.set() was called
    suspended         \* the handlers of the progress endpoint that are suspended,
                      \* each with its request and the await it is at

\* the pause hook
hookVars == <<waitOnChunk, current_chunk, upload_chunk_trigger, upload_chunk_wait, signals>>

vars == <<items, lostPermission, space_available, upload_info, auth_token,
          nextId, now, commits, req, resp, refresh_token, hookVars, suspended>>

(* ------------------------------ helpers ------------------------------- *)
EmptyDict == <<>>

Has(d, k) == k \in DOMAIN d

\* d[k] = v on a dict
Put(d, k, v) == [f \in DOMAIN d \cup {k} |-> IF f = k THEN v ELSE d[f]]

\* del d[k]
Del(d, k) == [f \in DOMAIN d \ {k} |-> d[f]]

\* d.get(k, default)
GetOr(d, k, default) == IF k \in DOMAIN d THEN d[k] ELSE default

IsDict(v) == v[1] = "m"

RECURSIVE SumSeq(_)
SumSeq(l) == IF l = <<>> THEN 0 ELSE Head(l) + SumSeq(Tail(l))

\* len() of a bytearray
BytesLen(v) == SumSeq(v[2])

\* bytearray()
NoBytes == <<"bytes", <<>> >>

\* Python's dict.update(other) for a dict `other`
DictUpdate(m, other) ==
    [k \in DOMAIN m \cup DOMAIN other |-> IF k \in DOMAIN other THEN other[k] ELSE m[k]]

IdNames == <<"f1", "f2", "f3", "f4", "f5", "f6">>

\* generateId(): the ids are fresh
generateId == IdNames[nextId + 1]

\* the ids a request can name: every id that can be generated
RequestIds == {IdNames[i] : i \in 1..MaxIds}

NoRequest == [op |-> "none"]

\* a header that is absent: headers.get(name, None)
None == <<>>

\* aiohttp's Response(): 200 with nothing in it
Response(status) ==
    [status |-> status, reason |-> "", id |-> "", range |-> <<>>,
     location |-> "", files |-> <<>>, item |-> <<>>, length |-> -1]

NoResponse == Response(0)

HTTPBadRequest == Response(400)
HTTPUnauthorized == Response(401)
HTTPNotFound == Response(404)

\* Response(status=403, text='{"error": {"errors": [{"reason": "forbidden"}]}}')
Forbidden == [Response(403) EXCEPT !.reason = "forbidden"]

\* json_response({"error": {"errors": [{"reason": "storageQuotaExceeded"}]}}, status=400)
QuotaExceeded == [Response(400) EXCEPT !.reason = "storageQuotaExceeded"]

\* a handler that raises something aiohttp does not know, or returns no
\* response object, is answered 500
ServerError == Response(500)

(* --------------------------- header check ----------------------------- *)
\* the Authorization header: absent (""), or "Bearer " + a token
AuthHeaders == {<<"none">>} \cup {<<"Bearer", t>> : t \in 0..MaxTokens}

\* a header check that looks at the scheme only
checkAnyBearer(r) == r.auth[1] = "Bearer"

\* request.headers.get("Authorization", "") != "Bearer " + self._auth_token
checkDriveHeaders(r) == r.auth = <<"Bearer", auth_token>>

(* ------------------------------ inputs ------------------------------- *)
Str(x) == <<"s", x>>
Num(n) == <<"n", n>>
Bool(b) == <<"b", b>>
List(l) == <<"l", l>>
Dict(m) == <<"m", m>>

\* the JSON bodies of create requests
CreateBodies ==
    { [mimeType |-> Str("X"), parents |-> List(<<>>)],
      [mimeType |-> Str("Y"), parents |-> List(<<"f1">>)],
      [props |-> Dict([a |-> Str("1")]), size |-> Num(Alignment)] }

\* the JSON bodies of update requests, as the key/value pairs in the order
\* the handler iterates over them
UpdateBodies ==
    { << <<"props", Dict([b |-> Str("1"), a |-> Str("2")])>> >>,
      << <<"props", Dict([b |-> Str("2"), c |-> Str("1")])>> >>,
      << <<"mimeType", Str("X")>>, <<"props", Str("v")>> >> }

\* a `fields` parameter, split at its commas; each part is a sequence of
\* lexemes, so that "files(id" is <<"files(", "id">> and "name)" is <<"name", ")">>
FieldSpecs ==
    { << <<"id">> >>,
      << <<"files(", "id">>, <<"mimeType", ")">> >>,
      << <<"files(", "id", ")">> >> }

\* the `q` parameter: mimeType='<arg>', '<arg>' in parents, empty, anything else
Queries ==
    {[shape |-> "mime", arg |-> x] : x \in {"X", ""}}
        \cup {[shape |-> "parents", arg |-> i] : i \in RequestIds}
        \cup {[shape |-> "empty", arg |-> ""], [shape |-> "other", arg |-> ""]}

\* Content-Range: "bytes */<total>", "bytes <start>-<end>/<total>", or neither
BytesRange(start, end, total) ==
    [shape |-> "bytes", start |-> start, end |-> end, total |-> total]
ProbeRange(total) == [shape |-> "probe", start |-> 0, end |-> 0, total |-> total]
OtherRange == [shape |-> "other", start |-> 0, end |-> 0, total |-> 0]

\* what setDriveSpaceAvailable is called with
Spaces == {Alignment + 1, DefaultSpace}

(* ----------------------------- item store ----------------------------- *)
Capabilities ==
    Dict([canAddChildren |-> Bool(TRUE), canListChildren |-> Bool(TRUE),
          canDeleteChildren |-> Bool(TRUE)])

\* timeToRfc3339String(self._time.now())
timeToRfc3339String(t) == <<"t", t>>

formatItem(base, id) ==
    Put(Put(Put(Put(base, "capabilities", Capabilities), "trashed", Bool(FALSE)),
            "id", Str(id)), "modifiedTime", timeToRfc3339String(now))

\* the name a part of a field list denotes, if it is a plain name
IsName(field) == Len(field) = 1 /\ field[1] \notin {"files(", ")"}

RECURSIVE filter_fields(_, _)
filter_fields(item, fields) ==
    IF fields = <<>> THEN EmptyDict
    ELSE LET field == Head(fields)
             rest == filter_fields(item, Tail(fields))
         IN  IF IsName(field) /\ Has(item, field[1])
             THEN Put(rest, field[1], item[field[1]])
             ELSE rest

parseField(field) ==
    IF field # <<>> /\ Head(field) = "files(" THEN Tail(field)
    ELSE IF field # <<>> /\ field[Len(field)] = ")" THEN SubSeq(field, 1, Len(field) - 1)
    ELSE field

parseFields(source) == [i \in 1..Len(source) |-> parseField(source[i])]

\* the stored item and the item of the upload session are one object once
\* the session is committed: a write to one is a write to the other
Aliased(id) == Has(upload_info, "id") /\ upload_info["id"] = id /\ Has(items, id)

SetItem(id, item) ==
    /\ items' = Put(items, id, item)
    /\ upload_info' = IF Aliased(id) THEN [upload_info EXCEPT !["item"] = item]
                      ELSE upload_info

Answer(r, response) == req' = r /\ resp' = response

\* a step that answers no request
NoExchange == req' = NoRequest /\ resp' = NoResponse

create(r) ==
    /\ r.op = "create"
    /\ IF ~checkDriveHeaders(r)
       THEN /\ Answer(r, HTTPUnauthorized)
            /\ UNCHANGED <<items, nextId>>
       ELSE LET id == generateId
                item == formatItem(r.body, id)
            IN  /\ nextId < MaxIds
                /\ items' = Put(items, id, item)
                /\ nextId' = nextId + 1
                /\ Answer(r, [Response(200) EXCEPT !.id = item["id"][2]])
    /\ UNCHANGED <<lostPermission, space_available, upload_info, auth_token, now, commits>>
    /\ UNCHANGED <<refresh_token, hookVars, suspended>>

get(r) ==
    /\ r.op = "get"
    /\ Answer(r,
         IF ~checkDriveHeaders(r) THEN HTTPUnauthorized
         ELSE IF ~Has(items, r.id) THEN HTTPNotFound
         ELSE IF r.id \in lostPermission THEN Forbidden
         ELSE IF r.alt = "media"
              THEN IF ~Has(items[r.id], "bytes") THEN HTTPBadRequest
                   ELSE [Response(200) EXCEPT !.length = BytesLen(items[r.id]["bytes"])]
              ELSE [Response(200) EXCEPT !.item = filter_fields(items[r.id], r.fields)])
    /\ UNCHANGED <<items, lostPermission, space_available, upload_info, auth_token,
                   nextId, now, commits>>
    /\ UNCHANGED <<refresh_token, hookVars, suspended>>

\* dict.update(val) leaves the dict alone when val is an empty string or list
IsEmptyIterable(val) == val \in {Str(""), List(<<>>)}

\* a loop of _update that assigns every key
updateKeyReplace(item, key, val) == [item |-> Put(item, key, val), raised |-> FALSE]

\* one round of the loop of _update; `raised` when dict.update(val) raises
\* because val is no dict (and no empty iterable)
updateKey(item, key, val) ==
    IF Has(item, key) /\ IsDict(item[key])
    THEN IF IsDict(val)
         THEN [item |-> Put(item, key, Dict(DictUpdate(item[key][2], val[2]))),
               raised |-> FALSE]
         ELSE [item |-> item, raised |-> ~IsEmptyIterable(val)]
    ELSE [item |-> Put(item, key, val), raised |-> FALSE]

RECURSIVE updateKeys(_, _)
updateKeys(item, body) ==
    IF body = <<>> THEN [item |-> item, raised |-> FALSE]
    ELSE LET one == updateKey(item, Head(body)[1], Head(body)[2])
         IN  IF one.raised THEN one ELSE updateKeys(one.item, Tail(body))

update(r) ==
    /\ r.op = "update"
    /\ IF ~checkDriveHeaders(r)
       THEN /\ Answer(r, HTTPUnauthorized)
            /\ UNCHANGED <<items, upload_info>>
       ELSE IF ~Has(items, r.id)
       THEN \* `return HTTPNotFound`: the class, which is no response
            /\ Answer(r, ServerError)
            /\ UNCHANGED <<items, upload_info>>
       ELSE LET done == updateKeys(items[r.id], r.body)
            IN  /\ SetItem(r.id, done.item)
                /\ Answer(r, IF done.raised THEN ServerError ELSE Response(200))
    /\ UNCHANGED <<lostPermission, space_available, auth_token, nextId, now, commits>>
    /\ UNCHANGED <<refresh_token, hookVars, suspended>>

delete(r) ==
    /\ r.op = "delete"
    /\ IF ~checkDriveHeaders(r)
       THEN /\ Answer(r, HTTPUnauthorized)
            /\ UNCHANGED items
       ELSE IF ~Has(items, r.id)
       THEN /\ Answer(r, HTTPNotFound)
            /\ UNCHANGED items
       ELSE /\ items' = Del(items, r.id)
            /\ Answer(r, Response(200))
    /\ UNCHANGED <<lostPermission, space_available, upload_info, auth_token, nextId, now, commits>>
    /\ UNCHANGED <<refresh_token, hookVars, suspended>>

(* ---------------------------- query engine ---------------------------- *)
\* the items a query answers with, keyed by the id they are stored under
\* (the response lists them in the store's order)
Files(ids, fields) == [i \in ids |-> filter_fields(items[i], fields)]

Elements(l) == {l[i] : i \in 1..Len(l)}

mimeTypeMatches(q) ==
    {i \in DOMAIN items : GetOr(items[i], "mimeType", Str("")) = Str(q.arg)}

parentsMatches(q) ==
    {i \in DOMAIN items : q.arg \in Elements(GetOr(items[i], "parents", List(<<>>))[2])}

\* a parents query that does not look at lostPermission
parentAccessUnblocked(parent) ==
    IF ~Has(items, parent) THEN HTTPNotFound ELSE Response(200)

\* the parents query on its parent: unknown, blocked, or listed
parentAccess(parent) ==
    IF ~Has(items, parent) THEN HTTPNotFound
    ELSE IF parent \in lostPermission THEN Forbidden
    ELSE Response(200)

queryResponse(r) ==
    LET fields == parseFields(r.fields)
    IN  IF r.q.shape = "mime"
        THEN [Response(200) EXCEPT !.files = Files(mimeTypeMatches(r.q), fields)]
        ELSE IF r.q.shape = "parents"
        THEN IF parentAccess(r.q.arg).status # 200 THEN parentAccess(r.q.arg)
             ELSE [Response(200) EXCEPT !.files = Files(parentsMatches(r.q), fields)]
        ELSE IF r.q.shape = "empty"
        THEN [Response(200) EXCEPT !.files = Files(DOMAIN items, fields)]
        ELSE HTTPBadRequest

query(r) ==
    /\ r.op = "query"
    /\ Answer(r, IF ~checkDriveHeaders(r) THEN HTTPUnauthorized ELSE queryResponse(r))
    /\ UNCHANGED <<items, lostPermission, space_available, upload_info, auth_token,
                   nextId, now, commits>>
    /\ UNCHANGED <<refresh_token, hookVars, suspended>>

(* ------------------------ upload state machine ------------------------ *)
\* the declared sizes of the uploads
Sizes == {1, Alignment + 1}

RECURSIVE SumSizes(_)
\* total_size over the stored items: item.get('size', 0)
SumSizes(ids) ==
    IF ids = {} THEN 0
    ELSE LET i == CHOOSE x \in ids : TRUE
         IN  GetOr(items[i], "size", Num(0))[2] + SumSizes(ids \ {i})

RECURSIVE checkParents(_)
\* the loop over metadata['parents']: the first parent that is not stored
\* or has lost its permission decides
checkParents(parents) ==
    IF parents = <<>> THEN Response(200)
    ELSE IF ~Has(items, Head(parents)) THEN HTTPNotFound
    ELSE IF Head(parents) \in lostPermission THEN Forbidden
    ELSE checkParents(Tail(parents))

\* the lines of _upload that write the session
startSession(r, id) ==
    [id |-> id,
     item |-> Put(Put(formatItem(r.metadata, id), "bytes", NoBytes), "size", Num(r.size)),
     size |-> r.size, mime |-> r.mime, next_start |-> 0]

\* a quota that refuses the upload that fills the space exactly
overQuotaInclusive(size) == SumSizes(DOMAIN items) + size >= space_available

\* total_size > self.space_available
overQuota(size) == SumSizes(DOMAIN items) + size > space_available

upload(r) ==
    /\ r.op = "upload"
    /\ IF ~checkDriveHeaders(r)
       THEN Answer(r, HTTPUnauthorized) /\ UNCHANGED <<upload_info, nextId>>
       ELSE IF r.uploadType # "resumable"
       THEN Answer(r, HTTPBadRequest) /\ UNCHANGED <<upload_info, nextId>>
       ELSE IF r.mime = None
       THEN Answer(r, HTTPBadRequest) /\ UNCHANGED <<upload_info, nextId>>
       ELSE IF r.size < 0
       THEN Answer(r, HTTPBadRequest) /\ UNCHANGED <<upload_info, nextId>>
       ELSE IF overQuota(r.size)
       THEN Answer(r, QuotaExceeded) /\ UNCHANGED <<upload_info, nextId>>
       ELSE LET parents == IF Has(r.metadata, "parents")
                           THEN checkParents(r.metadata["parents"][2])
                           ELSE Response(200)
            IN  IF parents.status # 200
                THEN Answer(r, parents) /\ UNCHANGED <<upload_info, nextId>>
                ELSE /\ nextId < MaxIds
                     /\ upload_info' = startSession(r, generateId)
                     /\ nextId' = nextId + 1
                     /\ Answer(r, [Response(200) EXCEPT !.location = generateId])
    /\ UNCHANGED <<items, lostPermission, space_available, auth_token, now, commits>>
    /\ UNCHANGED <<refresh_token, hookVars, suspended>>

\* a Range header that ends one byte late
receivedRangeLate ==
    IF upload_info["next_start"] # 0 THEN <<0, upload_info["next_start"]>> ELSE <<>>

\* the Range header of the answer to a status probe: "bytes=0-{next_start - 1}",
\* and none when next_start is 0
receivedRange ==
    IF upload_info["next_start"] # 0 THEN <<0, upload_info["next_start"] - 1>> ELSE <<>>

\* a handler without the alignment rule
alignedAlways(r) == TRUE

\* end == total - 1 or chunk_size % (256 * 1024) == 0
aligned(r) == r.range.end = r.range.total - 1 \/ r.length % Alignment = 0

\* no response yet: the handler goes on to `await self.readAll(request)`
ReadBody == Response(100)

\* _uploadProgress up to the body: the response it ends with, or ReadBody
progressHeaders(r) ==
    IF ~checkDriveHeaders(r) THEN HTTPUnauthorized
    ELSE IF GetOr(upload_info, "id", "") # r.id THEN HTTPBadRequest
    ELSE IF r.range.shape = "probe"
    THEN [Response(308) EXCEPT !.range = receivedRange]
    ELSE IF r.range.shape # "bytes" THEN HTTPBadRequest
    ELSE IF r.range.total # upload_info["size"] THEN HTTPBadRequest
    ELSE IF r.range.start # upload_info["next_start"] THEN HTTPBadRequest
    ELSE IF ~aligned(r) THEN HTTPBadRequest
    ELSE IF r.range.end > r.range.total - 1 THEN HTTPBadRequest
    ELSE ReadBody

\* a handler that does not extend the bytearray
extendedNothing(r) == upload_info["item"]

\* the bytearray of the session's item after extend(received_bytes)
extended(r) ==
    [upload_info["item"] EXCEPT
        !["bytes"] = IF r.body = 0 THEN @ ELSE <<"bytes", Append(@[2], r.body)>>]

\* a write to the session's item, which is the stored item once committed
SetUploadItem(item, info) ==
    /\ upload_info' = [info EXCEPT !["item"] = item]
    /\ items' = IF Aliased(upload_info["id"])
                THEN Put(items, upload_info["id"], item) ELSE items

\* a handler without the check that follows the extend
bufferMatchesAlways(r) == TRUE

\* the check that follows the extend: len(bytes) != end + 1
bufferMatches(r) == BytesLen(extended(r)["bytes"]) = r.range.end + 1

\* _uploadProgress from the body on
progressBody(r) ==
    IF r.body # r.length
    THEN Answer(r, HTTPBadRequest) /\ UNCHANGED <<items, upload_info, commits>>
    ELSE IF r.body # r.range.end - r.range.start + 1
    THEN Answer(r, HTTPBadRequest) /\ UNCHANGED <<items, upload_info, commits>>
    ELSE IF Len(extended(r)["bytes"][2]) > MaxChunks
    THEN FALSE
    ELSE IF ~bufferMatches(r)
    THEN /\ Answer(r, HTTPBadRequest)
         /\ SetUploadItem(extended(r), upload_info)
         /\ UNCHANGED commits
    ELSE IF r.range.end = r.range.total - 1
    THEN /\ items' = Put(items, upload_info["id"], extended(r))
         /\ upload_info' = [upload_info EXCEPT !["item"] = extended(r)]
         /\ commits' = commits \cup {upload_info["id"]}
         /\ Answer(r, [Response(200) EXCEPT !.id = upload_info["id"]])
    ELSE /\ SetUploadItem(extended(r),
                          [upload_info EXCEPT !["next_start"] = r.range.end + 1])
         /\ UNCHANGED commits
         /\ Answer(r, [Response(308) EXCEPT !.range = <<0, r.range.end>>])

\* what the pause hook does with a call: nothing when it is off, signal and
\* wait when the counter is at the chunk to wait on, count otherwise
hookBranch ==
    IF waitOnChunk > 0
    THEN IF current_chunk = waitOnChunk THEN "reached" ELSE "count"
    ELSE "off"

\* the counter after the hook: the call that signals does not count
countedChunk ==
    IF hookBranch = "count" THEN current_chunk + 1 ELSE current_chunk

\* the writes of the pause hook up to its await
hook ==
    /\ hookBranch = "count" => current_chunk < MaxCalls
    /\ hookBranch = "reached" => signals < MaxSignals
    /\ current_chunk' = countedChunk
    /\ upload_chunk_trigger' = (upload_chunk_trigger \/ hookBranch = "reached")
    /\ signals' = IF hookBranch = "reached" THEN signals + 1 ELSE signals
    /\ UNCHANGED <<waitOnChunk, upload_chunk_wait>>

\* a handler that passes the pause hook without a wait
hookWaitsNever == FALSE

\* the hook suspends the handler: `await self._upload_chunk_wait.wait()` on an
\* event that is not set
hookWaits == hookBranch = "reached" /\ ~upload_chunk_wait

\* _uploadProgress after the pause hook, run to its answer
progress(r) ==
    IF progressHeaders(r) = ReadBody
    THEN progressBody(r)
    ELSE Answer(r, progressHeaders(r)) /\ UNCHANGED <<items, upload_info, commits>>

\* a request to the progress endpoint, handled without another request in
\* between and without a wait at the pause hook
uploadProgress(r) ==
    /\ r.op = "uploadChunk"
    /\ ~hookWaits
    /\ hook
    /\ progress(r)
    /\ UNCHANGED <<lostPermission, space_available, auth_token, nextId, now>>
    /\ UNCHANGED <<refresh_token, suspended>>

\* a handler of the progress endpoint that is suspended: at the pause hook
\* ("hook") or at `await self.readAll(request)` ("body"); `paused` when it
\* is or was suspended at the pause hook
Handler(r, at, paused) == [r |-> r, at |-> at, paused |-> paused]

Without(l, i) == [k \in 1..Len(l) - 1 |-> IF k < i THEN l[k] ELSE l[k + 1]]

\* a handler that, once it was paused, checks the token, the session id and
\* the shape of Content-Range only
progressToBodyUnchecked(r, i) ==
    LET others == IF i = 0 THEN suspended ELSE Without(suspended, i)
        unchecked == /\ i # 0
                     /\ checkDriveHeaders(r)
                     /\ GetOr(upload_info, "id", "") = r.id
                     /\ r.range.shape = "bytes"
    IN  IF unchecked \/ progressHeaders(r) = ReadBody
        THEN /\ suspended' = Append(others, Handler(r, "body", i # 0))
             /\ NoExchange
        ELSE /\ suspended' = others
             /\ Answer(r, progressHeaders(r))

\* _uploadProgress after the pause hook, up to readAll: the handler of
\* request r, which is the i-th suspended one (0: it was not suspended),
\* answers or is suspended at readAll
progressToBody(r, i) ==
    LET others == IF i = 0 THEN suspended ELSE Without(suspended, i)
    IN  IF progressHeaders(r) = ReadBody
        THEN /\ suspended' = Append(others, Handler(r, "body", i # 0))
             /\ NoExchange
        ELSE /\ suspended' = others
             /\ Answer(r, progressHeaders(r))

\* a request arrives at the progress endpoint, and its handler runs up to the
\* first await that suspends it, or to its answer
progressArrives(r) ==
    /\ r.op = "uploadChunk"
    /\ Len(suspended) < MaxHandlers
    /\ hook
    /\ IF hookWaits
       THEN suspended' = Append(suspended, Handler(r, "hook", TRUE)) /\ NoExchange
       ELSE progressToBody(r, 0)
    /\ UNCHANGED <<items, lostPermission, space_available, upload_info, auth_token,
                   nextId, now, commits, refresh_token>>

\* the handler that waits at the pause hook goes on once the event is set
progressResumes(i) ==
    /\ i \in 1..Len(suspended)
    /\ suspended[i].at = "hook"
    /\ upload_chunk_wait
    /\ progressToBody(suspended[i].r, i)
    /\ UNCHANGED <<items, lostPermission, space_available, upload_info, auth_token,
                   nextId, now, commits, refresh_token, hookVars>>

\* the handler that waits for the body has read it and runs to its answer
progressReceives(i) ==
    /\ i \in 1..Len(suspended)
    /\ suspended[i].at = "body"
    /\ progressBody(suspended[i].r)
    /\ suspended' = Without(suspended, i)
    /\ UNCHANGED <<lostPermission, space_available, auth_token, nextId, now,
                   refresh_token, hookVars>>

(* ---------------------------- test control ---------------------------- *)
setDriveSpaceAvailable(bytes_available) ==
    /\ space_available' = bytes_available
    /\ NoExchange
    /\ UNCHANGED <<items, lostPermission, upload_info, auth_token, nextId, now, commits>>
    /\ UNCHANGED <<refresh_token, hookVars, suspended>>

\* generateId(20) is a token no request has carried yet
generateNewAccessToken ==
    /\ auth_token < MaxTokens
    /\ auth_token' = auth_token + 1
    /\ NoExchange
    /\ UNCHANGED <<items, lostPermission, space_available, upload_info, nextId, now, commits>>
    /\ UNCHANGED <<refresh_token, hookVars, suspended>>

\* the harness adds an id to lostPermission
losePermission(id) ==
    /\ id \notin lostPermission
    /\ lostPermission' = lostPermission \cup {id}
    /\ NoExchange
    /\ UNCHANGED <<items, space_available, upload_info, auth_token, nextId, now, commits>>
    /\ UNCHANGED <<refresh_token, hookVars, suspended>>

\* the harness advances the clock
Tick ==
    /\ now < MaxTime
    /\ now' = now + 1
    /\ NoExchange
    /\ UNCHANGED <<items, lostPermission, space_available, upload_info, auth_token, nextId,
                   commits, refresh_token, hookVars, suspended>>

\* generateId(20) is a token no request has carried yet
generateNewRefreshToken ==
    /\ refresh_token < MaxTokens
    /\ refresh_token' = refresh_token + 1
    /\ NoExchange
    /\ UNCHANGED <<items, lostPermission, space_available, upload_info, auth_token, nextId,
                   now, commits, hookVars, suspended>>

\* the harness tells the pause hook which chunk to wait on; 0 turns it off
setWaitOnChunk(n) ==
    /\ n # waitOnChunk
    /\ waitOnChunk' = n
    /\ NoExchange
    /\ UNCHANGED <<items, lostPermission, space_available, upload_info, auth_token, nextId,
                   now, commits, refresh_token, current_chunk, upload_chunk_trigger,
                   upload_chunk_wait, signals, suspended>>

\* the harness delivers the resume signal: self._upload_chunk_wait.set()
resume ==
    /\ ~upload_chunk_wait
    /\ upload_chunk_wait' = TRUE
    /\ NoExchange
    /\ UNCHANGED <<items, lostPermission, space_available, upload_info, auth_token, nextId,
                   now, commits, refresh_token, waitOnChunk, current_chunk,
                   upload_chunk_trigger, signals, suspended>>

(* --------------------------- token endpoint --------------------------- *)
\* self._client_id_hack, which __init__ leaves None
client_id_hack == None

\* the client ids and secrets: the custom pair generated by __init__, the
\* default pair of the configuration, and a value that is neither
ClientIds == {"custom_id", "default_id", "other"}
ClientSecrets == {"custom_secret", "default_secret", "other"}

\* a check of the client that accepts every known client id
checkClientIdOnly(client_id, client_secret) ==
    client_id \in {"custom_id", "default_id"}

checkClientIdandSecret(client_id, client_secret) ==
    \/ client_id = "custom_id" /\ client_secret = "custom_secret"
    \/ client_id = "default_id" /\ client_secret = "default_secret"
    \/ /\ client_id_hack # None
       /\ client_id = client_id_hack
       /\ client_secret = "default_secret"

\* a parameter of the posted form: <<value>>, or None when the form lacks it
Given(value) == <<value>>

\* params[key] raises KeyError when the form lacks the key
Missing(param) == param = None

\* what _oauth2Token answers when it does not rotate the token: the first
\* check that fails decides
tokenRefused(r) ==
    IF Missing(r.client_id) \/ Missing(r.client_secret) THEN ServerError
    ELSE IF ~checkClientIdandSecret(r.client_id[1], r.client_secret[1]) THEN HTTPUnauthorized
    ELSE IF Missing(r.refresh_token) THEN ServerError
    ELSE IF r.refresh_token # Given(refresh_token) THEN HTTPUnauthorized
    ELSE IF Missing(r.grant_type) THEN ServerError
    ELSE IF r.grant_type # Given("refresh_token") THEN HTTPUnauthorized
    ELSE Response(200)

oauth2Token(r) ==
    /\ r.op = "refreshToken"
    /\ IF tokenRefused(r).status # 200
       THEN Answer(r, tokenRefused(r)) /\ UNCHANGED auth_token
       ELSE /\ auth_token < MaxTokens
            /\ auth_token' = auth_token + 1
            /\ Answer(r, [Response(200) EXCEPT !.item =
                    [access_token |-> Num(auth_token'), expires_in |-> Num(3600),
                     token_type |-> Str("doesn't matter")]])
    /\ UNCHANGED <<items, lostPermission, space_available, upload_info, nextId, now,
                   commits, refresh_token, hookVars, suspended>>

(* ------------------------------ requests ------------------------------ *)
\* the forms posted to the token endpoint, with and without their parameters
TokenRequests ==
    {[refresh_token |-> t, op |-> "refreshToken", client_id |-> i, client_secret |-> s,
      grant_type |-> g] :
        i \in {Given(x) : x \in ClientIds} \cup {None},
        s \in {Given(x) : x \in ClientSecrets},
        t \in {Given(x) : x \in 0..MaxTokens} \cup {None},
        g \in {Given("refresh_token"), Given("authorization_code"), None}}

Bearer(t) == <<"Bearer", t>>

CreateRequests(auths, bodies) ==
    {[op |-> "create", auth |-> a, body |-> b] : a \in auths, b \in bodies}

GetRequests(auths) ==
    {[op |-> "get", id |-> i, auth |-> a, fields |-> << <<"id">> >>, alt |-> alt] :
        a \in auths, i \in RequestIds, alt \in {"metadata", "media"}}

UpdateRequests(auths, bodies) ==
    {[op |-> "update", id |-> i, auth |-> a, body |-> b] :
        a \in auths, i \in RequestIds, b \in bodies}

DeleteRequests(auths) ==
    {[op |-> "delete", id |-> i, auth |-> a] : a \in auths, i \in RequestIds}

QueryRequests(auths, queries, specs) ==
    {[op |-> "query", auth |-> a, fields |-> f, q |-> q] :
        a \in auths, q \in queries, f \in specs}

\* the JSON bodies of the requests that start an upload
UploadBodies == {EmptyDict, [parents |-> List(<<"f1">>)]}

UploadRequests(auths, types, mimes, sizes, bodies) ==
    {[op |-> "upload", auth |-> a, size |-> s, metadata |-> b, mime |-> m,
      uploadType |-> u] :
        a \in auths, u \in types, m \in mimes, s \in sizes, b \in bodies}

\* where a chunk starts and how many bytes its body has
Starts == {0, Alignment}
BodyLengths == {0, 1, Alignment, Alignment + 1}

\* chunk transfers: the range ends where the body ends or one byte later, and
\* Content-Length is the length of the body or the alignment unit
ChunksAt(s, n) ==
    {[range |-> BytesRange(s, e, t), length |-> l, body |-> n] :
        e \in {x \in {s + n - 1, s + n} : x >= 0}, l \in {n, Alignment}, t \in Sizes}

ChunkRanges == UNION {ChunksAt(s, n) : s \in Starts, n \in BodyLengths}

\* status probes and requests with another Content-Range
OtherRanges ==
    {[range |-> ProbeRange(t), length |-> 0, body |-> 0] : t \in Sizes}
        \cup {[range |-> OtherRange, length |-> 0, body |-> 0]}

ProgressRequests(auths, ids, chunks) ==
    {[op |-> "uploadChunk", id |-> i, range |-> c.range, length |-> c.length,
      auth |-> a, body |-> c.body] :
        a \in auths, i \in ids, c \in chunks}

\* the id of the session, if one was started
SessionIds == IF Has(upload_info, "id") THEN {upload_info["id"]} ELSE {}

(* ------------------------------ actions ------------------------------- *)
Init ==
    /\ items = EmptyDict
    /\ lostPermission = {}
    /\ space_available = DefaultSpace
    /\ upload_info = EmptyDict
    /\ auth_token = 0
    /\ nextId = 0
    /\ now = 0
    /\ commits = {}
    /\ req = NoRequest
    /\ resp = NoResponse
    /\ refresh_token = 0
    /\ waitOnChunk = 0
    /\ current_chunk = 1
    /\ upload_chunk_trigger = FALSE
    /\ upload_chunk_wait = FALSE
    /\ signals = 0
    /\ suspended = <<>>

\* a whole upload in one chunk
WholeChunks ==
    {[range |-> BytesRange(0, t - 1, t), length |-> t, body |-> t] : t \in Sizes}

\* the upload protocol: a client that holds the access token starts
\* sessions, sends chunks and probes, well formed or not, to the session and
\* whole uploads to any id, and deletes items
NextUpload ==
    \/ \E r \in UploadRequests({Bearer(0)}, {"resumable"}, {<<"X">>}, Sizes, {EmptyDict}) :
            upload(r)
    \/ \E r \in ProgressRequests({Bearer(0)}, SessionIds, ChunkRanges \cup OtherRanges)
                \cup ProgressRequests({Bearer(0)}, RequestIds, WholeChunks) :
            uploadProgress(r)
    \/ \E r \in DeleteRequests({Bearer(0)}) : delete(r)

SpecUpload == Init /\ [][NextUpload]_vars

\* the quota: uploads are started, well formed or not, and completed in one
\* chunk, items with and without a size are created and deleted, parents lose
\* their permission, and the harness changes the space available
NextQuota ==
    \/ \E r \in UploadRequests({Bearer(0)}, {"resumable", "media"}, {None, <<"X">>},
                               Sizes \cup {-1}, UploadBodies) : upload(r)
    \/ \E r \in ProgressRequests({Bearer(0)}, RequestIds, WholeChunks) : uploadProgress(r)
    \/ \E r \in CreateRequests({Bearer(0)}, {[size |-> Num(Alignment)], EmptyDict}) :
            create(r)
    \/ \E r \in DeleteRequests({Bearer(0)}) : delete(r)
    \/ \E b \in Spaces : setDriveSpaceAvailable(b)
    \/ losePermission("f1")

SpecQuota == Init /\ [][NextQuota]_vars

\* the query engine: items are created, updated and deleted, ids lose their
\* permission, and the store is queried
NextQuery ==
    \/ \E r \in CreateRequests({Bearer(0)}, CreateBodies) : create(r)
    \/ \E r \in UpdateRequests({Bearer(0)}, {<< <<"mimeType", Str("X")>> >>}) : update(r)
    \/ \E r \in DeleteRequests({Bearer(0)}) : delete(r)
    \/ \E r \in QueryRequests({Bearer(0)}, Queries, FieldSpecs) : query(r)
    \/ \E i \in RequestIds : losePermission(i)

SpecQuery == Init /\ [][NextQuery]_vars

\* the item store: items are created, read, updated and deleted
NextStore ==
    \/ \E r \in CreateRequests({Bearer(0)}, CreateBodies) : create(r)
    \/ \E r \in GetRequests({Bearer(0)}) : get(r)
    \/ \E r \in UpdateRequests({Bearer(0)}, UpdateBodies) : update(r)
    \/ \E r \in DeleteRequests({Bearer(0)}) : delete(r)

SpecStore == Init /\ [][NextStore]_vars

\* an upload of Alignment + 1 bytes in two chunks, and a status probe
TwoChunks ==
    {[range |-> BytesRange(0, Alignment - 1, Alignment + 1), length |-> Alignment,
      body |-> Alignment],
     [range |-> BytesRange(Alignment, Alignment, Alignment + 1), length |-> 1,
      body |-> 1],
     [range |-> ProbeRange(Alignment + 1), length |-> 0, body |-> 0]}

\* every endpoint of the data plane, asked with and without the access token,
\* while the harness rotates the token
Next ==
    \/ \E r \in CreateRequests(AuthHeaders, {[mimeType |-> Str("X")]}) : create(r)
    \/ \E r \in GetRequests(AuthHeaders) : get(r)
    \/ \E r \in UpdateRequests(AuthHeaders, {<< <<"mimeType", Str("Y")>> >>}) : update(r)
    \/ \E r \in DeleteRequests(AuthHeaders) : delete(r)
    \/ \E r \in QueryRequests(AuthHeaders, {[shape |-> "mime", arg |-> "X"]},
                              {<< <<"id">> >>}) : query(r)
    \/ \E r \in UploadRequests(AuthHeaders, {"resumable"}, {<<"X">>}, {Alignment + 1},
                               {EmptyDict}) : upload(r)
    \/ \E r \in ProgressRequests(AuthHeaders, SessionIds, TwoChunks) : uploadProgress(r)
    \/ generateNewAccessToken

Spec == Init /\ [][Next]_vars

(* ------------------- properties of the upload protocol ----------------- *)
\* this step answers a request to the progress endpoint
Progress == req'.op = "uploadChunk"

\* a session has been started
Started == Has(upload_info, "id")

\* the session has been started and no final chunk of it was accepted
InFlight == Started /\ upload_info["id"] \notin commits

\* len() of the bytearray of the session
Received == BytesLen(upload_info["item"]["bytes"])

\* this step answers a request that carries the access token and is addressed
\* to the session, which is in flight
ProgressInFlight ==
    Progress /\ InFlight /\ checkDriveHeaders(req') /\ req'.id = upload_info["id"]

\* the request of this step is a chunk transfer, "bytes <start>-<end>/<total>"
Transfer == req'.range.shape = "bytes"

\* the chunk transfer of this step is the next chunk of the session: it starts
\* at next_start, its body and its Content-Length are end - start + 1 bytes, it
\* ends inside the declared size and, unless it is the last chunk, is aligned
NextChunk ==
    /\ req'.range.total = upload_info["size"]
    /\ req'.range.start = upload_info["next_start"]
    /\ req'.range.end <= upload_info["size"] - 1
    /\ req'.body = req'.range.end - req'.range.start + 1
    /\ req'.length = req'.body
    /\ (req'.range.end = upload_info["size"] - 1 \/ req'.body % Alignment = 0)

\* C1: in a session of declared size S, every chunk delivered in offset order
\* (aligned unless it ends at S-1) is answered 308 when it is not the last and
\* with the session's id when it is, and then the item stored under that id
\* has a buffer of exactly S bytes.
C1_InOrderDelivery ==
    [][(ProgressInFlight /\ Transfer /\ NextChunk) =>
         IF req'.range.end < upload_info["size"] - 1
         THEN /\ resp'.status = 308
              /\ resp'.range = <<0, req'.range.end>>
              /\ upload_info'["next_start"] = req'.range.end + 1
         ELSE /\ resp'.status = 200
              /\ resp'.id = upload_info["id"]
              /\ Has(items', upload_info["id"])
              /\ BytesLen(items'[upload_info["id"]]["bytes"]) = upload_info["size"]]_vars

\* a session whose last chunk was delivered after an earlier chunk, and the
\* stored item holds all the bytes
C1_Witness ==
    /\ req.op = "uploadChunk"
    /\ req.range.shape = "bytes"
    /\ req.range.start > 0
    /\ resp.status = 200
    /\ Has(items, resp.id)
    /\ BytesLen(items[resp.id]["bytes"]) = Alignment + 1

\* the conditions C2 lists, n being the number of bytes of the body
C2_Listed ==
    /\ req'.range.total = upload_info["size"]
    /\ req'.range.start = upload_info["next_start"]
    /\ req'.range.end <= req'.range.total - 1
    /\ req'.body = req'.range.end - req'.range.start + 1
    /\ (req'.range.end = req'.range.total - 1 \/ req'.body % Alignment = 0)

Accepted == resp'.status \in {308, 200}

\* C2 as stated: a chunk transfer to a session in flight is accepted exactly
\* when the listed conditions hold, and is answered BadRequest otherwise.
C2_AsStated ==
    [][(ProgressInFlight /\ Transfer) =>
         /\ Accepted <=> C2_Listed
         /\ Accepted \/ resp' = HTTPBadRequest]_vars

\* C2: a chunk transfer to a session in flight is accepted exactly when the
\* listed conditions hold and the Content-Length header equals the number of
\* bytes of the body; every other chunk transfer is answered BadRequest.
C2_AcceptedExactlyWhen ==
    [][(ProgressInFlight /\ Transfer) =>
         /\ Accepted <=> (C2_Listed /\ req'.length = req'.body)
         /\ Accepted \/ resp' = HTTPBadRequest]_vars

\* an aligned chunk that is not the last one was refused because it does not
\* start at next_start
C2_Witness ==
    /\ req.op = "uploadChunk"
    /\ InFlight
    /\ req.id = upload_info["id"]
    /\ req.range.shape = "bytes"
    /\ req.range.total = upload_info["size"]
    /\ req.range.start # upload_info["next_start"]
    /\ req.body = Alignment
    /\ req.length = Alignment
    /\ req.range.end = req.range.start + Alignment - 1
    /\ resp = HTTPBadRequest

\* C3: a request to the progress endpoint that is answered BadRequest leaves
\* the buffer, next_start and the item store as they were.
C3_BadRequestChangesNothing ==
    [][(Progress /\ resp' = HTTPBadRequest) => UNCHANGED <<items, upload_info>>]_vars

\* C4: an item appears under a session's id only in the step that accepts the
\* chunk ending at size-1 of that session, and no session is committed twice.
C4_CommittedOnce ==
    [][/\ \A i \in DOMAIN items' \ DOMAIN items :
            (Started /\ upload_info["id"] = i) =>
                /\ Progress /\ Transfer
                /\ req'.range.end = upload_info["size"] - 1
                /\ resp'.status = 200
                /\ resp'.id = i
       /\ (Progress /\ resp'.status = 200) =>
                /\ resp'.id \notin commits
                /\ ~Has(items, resp'.id)]_vars

\* a request to a committed session was refused after its item had been
\* deleted, and the store still has no item under the id
C4_Witness ==
    /\ Started
    /\ upload_info["id"] \in commits
    /\ ~Has(items, upload_info["id"])
    /\ req.op = "uploadChunk"
    /\ req.id = upload_info["id"]
    /\ req.range.shape = "bytes"
    /\ req.range.end = upload_info["size"] - 1
    /\ resp = HTTPBadRequest

\* C5: a status probe of the session in flight is answered 308, without a
\* Range header when the buffer is empty and with the range 0..next_start-1
\* otherwise, and changes neither the session nor the item store.
C5_StatusProbe ==
    [][(ProgressInFlight /\ req'.range.shape = "probe") =>
         /\ resp'.status = 308
         /\ resp'.range = IF Received = 0 THEN <<>>
                          ELSE <<0, upload_info["next_start"] - 1>>
         /\ UNCHANGED <<items, upload_info>>]_vars

\* a probe in the middle of an upload
C5_Witness ==
    /\ req.op = "uploadChunk"
    /\ req.range.shape = "probe"
    /\ InFlight
    /\ resp.status = 308
    /\ resp.range = <<0, Alignment - 1>>

(* ------------------------ properties of the quota ---------------------- *)
\* the `size` field of the item stored under the i-th id, 0 without one
StoredSize(i) ==
    IF Has(items, IdNames[i]) /\ Has(items[IdNames[i]], "size")
    THEN items[IdNames[i]]["size"][2] ELSE 0

RECURSIVE StoredSizes(_)
\* the sum of the `size` fields of the items stored under the first n ids
StoredSizes(n) == IF n = 0 THEN 0 ELSE StoredSize(n) + StoredSizes(n - 1)

\* this step answers a request to start an upload that carries the access
\* token, uploadType=resumable, a content type and a content length
StartUpload ==
    /\ req'.op = "upload"
    /\ checkDriveHeaders(req')
    /\ req'.uploadType = "resumable"
    /\ req'.mime # None
    /\ req'.size >= 0

\* every parent the request declares is stored and has its permission
ParentsOk ==
    Has(req'.metadata, "parents") =>
        \A p \in Elements(req'.metadata["parents"][2]) :
            Has(items, p) /\ p \notin lostPermission

\* C6: a request to start an upload whose size plus the sizes of the stored
\* items exceeds the space available is answered 400 storageQuotaExceeded and
\* leaves the session as it was; one whose size fits starts a session.
C6_Quota ==
    [][StartUpload =>
         IF StoredSizes(nextId) + req'.size > space_available
         THEN resp' = QuotaExceeded /\ UNCHANGED <<upload_info, items>>
         ELSE ParentsOk =>
                /\ resp'.status = 200
                /\ resp'.location = upload_info'["id"]
                /\ resp'.location \notin DOMAIN items
                /\ upload_info'["size"] = req'.size
                /\ upload_info'["next_start"] = 0
                /\ BytesLen(upload_info'["item"]["bytes"]) = 0]_vars

\* an upload was refused for the quota while a session was in flight
C6_Witness ==
    /\ req.op = "upload"
    /\ resp = QuotaExceeded
    /\ InFlight
    /\ items # EmptyDict

(* --------------------- properties of the query engine ------------------ *)
\* the names a `fields` parameter asks for
RequestedNames(fields) ==
    UNION {Elements(fields[i]) : i \in 1..Len(fields)} \ {"files(", ")"}

\* an item, projected onto the names it has
Projected(item, names) == [f \in names \cap DOMAIN item |-> item[f]]

\* this step answers a query that carries the access token
Query == req'.op = "query" /\ checkDriveHeaders(req')

\* C7 as stated: a query mimeType='X' returns exactly the stored items whose
\* mimeType field is X, projected onto the requested fields they have; an item
\* without a mimeType field is never returned.
C7_AsStated ==
    [][(Query /\ req'.q.shape = "mime") =>
         /\ resp'.status = 200
         /\ DOMAIN resp'.files =
              {i \in DOMAIN items :
                  Has(items[i], "mimeType") /\ items[i]["mimeType"] = Str(req'.q.arg)}
         /\ \A i \in DOMAIN resp'.files :
              resp'.files[i] = Projected(items[i], RequestedNames(req'.fields))]_vars

Updated == req'.op = "update" /\ resp'.status = 200

\* the pairs of the body of the request of this step
UpdatePairs == Elements(req'.body)

\* C9: an update that is repeated changes nothing more; an update of a field
\* that holds a mapping adds its keys to the mapping and overrides the values
\* of the keys it names, so that after two updates in a row the mapping has
\* the keys it had and those of both updates, the later values winning.
C9_UpdateMerges ==
    [][/\ (req'.op = "update" /\ req' = req) => items' = items
       /\ Updated =>
            \A kv \in UpdatePairs :
                LET old == items[req'.id]
                    new == items'[req'.id]
                IN  (Has(old, kv[1]) /\ IsDict(old[kv[1]]) /\ IsDict(kv[2])) =>
                      /\ IsDict(new[kv[1]])
                      /\ DOMAIN new[kv[1]][2] = DOMAIN old[kv[1]][2] \cup DOMAIN kv[2][2]
                      /\ \A x \in DOMAIN new[kv[1]][2] :
                            new[kv[1]][2][x] = IF x \in DOMAIN kv[2][2]
                                               THEN kv[2][2][x] ELSE old[kv[1]][2][x]
       /\ (Updated /\ req.op = "update" /\ resp.status = 200 /\ req.id = req'.id) =>
            \A kv \in UpdatePairs, was \in Elements(req.body) :
                (kv[1] = was[1] /\ IsDict(kv[2]) /\ IsDict(was[2])) =>
                    \A x \in DOMAIN was[2][2] \ DOMAIN kv[2][2] :
                        /\ x \in DOMAIN items'[req'.id][kv[1]][2]
                        /\ items'[req'.id][kv[1]][2][x] = was[2][2][x]]_vars

\* a mapping that two updates in a row have merged into: `a` was there and was
\* overridden by the first, `b` came with the first and was overridden by the
\* second, `c` came with the second
C9_Witness ==
    /\ req.op = "update"
    /\ resp.status = 200
    /\ Has(items, req.id)
    /\ Has(items[req.id], "props")
    /\ items[req.id]["props"] = Dict([b |-> Str("2"), a |-> Str("2"), c |-> Str("1")])

(* ---------------------- properties of the header check ----------------- *)
\* the endpoints of the data plane
DataPlane == {"create", "get", "update", "delete", "query", "upload", "uploadChunk"}

\* C10: a request to the data plane whose bearer token is not the current
\* access token is answered Unauthorized and changes neither the item store,
\* nor the upload session, nor the access token.
C10_Unauthorized ==
    [][(req'.op \in DataPlane /\ req'.auth # Bearer(auth_token)) =>
         /\ resp' = HTTPUnauthorized
         /\ UNCHANGED <<items, upload_info, auth_token>>]_vars

\* the next chunk of a session, sent with the token that was valid before the
\* rotation, was refused
C10_Witness ==
    /\ req.op = "uploadChunk"
    /\ req.auth = Bearer(0)
    /\ auth_token = 1
    /\ InFlight
    /\ req.id = upload_info["id"]
    /\ req.range.shape = "bytes"
    /\ req.range.start = upload_info["next_start"]
    /\ items # EmptyDict
    /\ resp = HTTPUnauthorized
(* ------------------- properties of the token endpoint ----------------- *)
\* the token endpoint and the header check: forms are posted to the token
\* endpoint, the harness rotates the refresh token, and items are created and
\* read with and without the access token
NextToken ==
    \/ \E r \in TokenRequests : oauth2Token(r)
    \/ generateNewRefreshToken
    \/ \E r \in CreateRequests(AuthHeaders, {[mimeType |-> Str("X")]}) : create(r)
    \/ \E r \in GetRequests(AuthHeaders) : get(r)

SpecToken == Init /\ [][NextToken]_vars

\* this step answers a form posted to the token endpoint
Refresh == req'.op = "refreshToken"

\* the form has the four parameters the handler reads
FormComplete ==
    None \notin {req'.client_id, req'.client_secret, req'.refresh_token, req'.grant_type}

\* the form names a client and its secret, the current refresh token and the
\* grant type refresh_token
FormValid ==
    /\ <<req'.client_id, req'.client_secret>> \in
            {<<Given("custom_id"), Given("custom_secret")>>,
             <<Given("default_id"), Given("default_secret")>>}
    /\ req'.refresh_token = Given(refresh_token)
    /\ req'.grant_type = Given("refresh_token")

\* the access token is replaced by one that was not in use before, which the
\* answer returns, and the header check accepts the new token and not the old
Rotated ==
    /\ resp'.status = 200
    /\ auth_token' > auth_token
    /\ resp'.item["access_token"] = Num(auth_token')
    /\ resp'.item["expires_in"] = Num(3600)
    /\ refresh_token' = refresh_token

PausedChunks ==
    {[range |-> BytesRange(0, Alignment - 1, Alignment + 1), length |-> Alignment,
      body |-> Alignment],
     [range |-> BytesRange(Alignment, Alignment, Alignment + 1), length |-> 1,
      body |-> 1]}

\* the pause hook, with the requests handled one after another: the harness
\* tells the hook once which chunk to wait on and delivers the resume signal,
\* a client starts uploads and sends chunks, each after the answer to the one
\* before
NextPause ==
    \/ \E n \in 1..MaxCalls : waitOnChunk = 0 /\ signals = 0 /\ setWaitOnChunk(n)
    \/ resume
    \/ \E r \in UploadRequests({Bearer(0)}, {"resumable"}, {<<"X">>}, {Alignment + 1},
                               {EmptyDict}) : suspended = <<>> /\ upload(r)
    \/ \E r \in ProgressRequests({Bearer(0)}, RequestIds, PausedChunks) :
            suspended = <<>> /\ progressArrives(r)
    \/ \E i \in 1..MaxHandlers : progressResumes(i)
    \/ \E i \in 1..MaxHandlers : progressReceives(i)

SpecPause == Init /\ [][NextPause]_vars

\* this step is the arrival of a request at the progress endpoint: one more
\* handler is suspended, or the request is answered at once
Arrival ==
    \/ Len(suspended') > Len(suspended)
    \/ req'.op = "uploadChunk" /\ Len(suspended') = Len(suspended)

\* _upload_chunk_trigger.set() is called in this step
Signalled == signals' # signals

\* how many handlers are suspended at the pause hook
AtHook(l) == Cardinality({i \in 1..Len(l) : l[i].at = "hook"})

\* C12 as stated: with the hook told to wait on chunk N, a call before the
\* counter is at N only counts and goes on; the event is signalled once, by
\* the call that finds the counter at N; and that call neither validates nor
\* writes before the resume signal.
C12_AsStated ==
    [][/\ (Arrival /\ waitOnChunk > 0 /\ current_chunk # waitOnChunk) =>
            /\ current_chunk' = current_chunk + 1
            /\ ~Signalled
            /\ AtHook(suspended') = AtHook(suspended)
       /\ Signalled =>
            /\ Arrival /\ current_chunk = waitOnChunk
            /\ signals = 0
       /\ (Signalled /\ ~upload_chunk_wait) =>
            /\ AtHook(suspended') = AtHook(suspended) + 1
            /\ resp' = NoResponse
            /\ UNCHANGED <<items, upload_info>>
       /\ AtHook(suspended') < AtHook(suspended) => upload_chunk_wait]_vars

\* this step answers a request to the progress endpoint
ProgressAnswered == req'.op = "uploadChunk"

\* C13: with the requests handled one after another, the answer to a request
\* to the progress endpoint and what it writes are those of the handler
\* without the hook, run on the store and the session as they were when the
\* request arrived: nothing is written between the arrival and the answer.
C13_HookOnlyDelays ==
    [][/\ ProgressAnswered => progress(req')
       /\ (suspended # <<>> /\ ~ProgressAnswered) =>
            UNCHANGED <<items, upload_info, auth_token, commits>>]_vars

\* the first chunk of an upload was accepted after its handler had waited at
\* the pause hook
C13_Witness ==
    /\ waitOnChunk = 1
    /\ signals = 1
    /\ upload_chunk_wait
    /\ req.op = "uploadChunk"
    /\ resp.status = 308
    /\ upload_info["next_start"] = Alignment

(* ------------------ properties of the suspended handlers --------------- *)
\* the first chunk of an upload of Alignment + 1 bytes
FirstChunks ==
    {[range |-> BytesRange(0, Alignment - 1, Alignment + 1), length |-> Alignment,
      body |-> Alignment]}

\* a form posted to the token endpoint with another grant type
OtherGrants ==
    {[refresh_token |-> Given(0), op |-> "refreshToken",
      client_id |-> Given("custom_id"), client_secret |-> Given("custom_secret"),
      grant_type |-> Given("authorization_code")]}

\* the server with its handlers interleaved at their awaits: the harness tells
\* the hook once which chunk to wait on and delivers the resume signal, and
\* clients use every endpoint while handlers of the progress endpoint are
\* suspended
NextServe ==
    \/ \E n \in 1..MaxCalls : waitOnChunk = 0 /\ signals = 0 /\ setWaitOnChunk(n)
    \/ resume
    \/ \E r \in UploadRequests({Bearer(0)}, {"resumable"}, {<<"X">>}, {Alignment + 1},
                               {EmptyDict}) : upload(r)
    \/ \E r \in ProgressRequests({Bearer(0)}, SessionIds, FirstChunks) : progressArrives(r)
    \/ \E i \in 1..MaxHandlers : progressResumes(i)
    \/ \E i \in 1..MaxHandlers : progressReceives(i)
    \/ \E r \in CreateRequests({Bearer(0)}, {[mimeType |-> Str("X")]}) : create(r)
    \/ \E r \in GetRequests({Bearer(0)}) : get(r)
    \/ \E r \in UpdateRequests({Bearer(0)}, {<< <<"mimeType", Str("X")>> >>}) : update(r)
    \/ \E r \in DeleteRequests({Bearer(0)}) : delete(r)
    \/ \E r \in QueryRequests({Bearer(0)}, {[shape |-> "empty", arg |-> ""]},
                              {<< <<"id">> >>}) : query(r)
    \/ \E r \in OtherGrants : oauth2Token(r)

\* the event loop runs every handler that can go on: one whose event is set,
\* one whose body has arrived
FairHandlers ==
    \A i \in 1..MaxHandlers :
        WF_vars(progressResumes(i)) /\ WF_vars(progressReceives(i))

SpecServe == Init /\ [][NextServe]_vars /\ FairHandlers

\* a handler is suspended at the pause hook
HookSuspended == AtHook(suspended) > 0

\* a handler that is or was suspended at the pause hook has not answered yet
PausedPending == \E i \in 1..Len(suspended) : suspended[i].paused

\* a request to each of the other endpoints can be answered now
Servable ==
    /\ ENABLED (\E r \in GetRequests({Bearer(0)}) : get(r))
    /\ ENABLED (\E r \in UpdateRequests({Bearer(0)}, {<< <<"mimeType", Str("X")>> >>}) :
                    update(r))
    /\ ENABLED (\E r \in DeleteRequests({Bearer(0)}) : delete(r))
    /\ ENABLED (\E r \in QueryRequests({Bearer(0)}, {[shape |-> "empty", arg |-> ""]},
                                        {<< <<"id">> >>}) : query(r))
    /\ ENABLED (\E r \in OtherGrants : oauth2Token(r))
    /\ nextId < MaxIds =>
          /\ ENABLED (\E r \in CreateRequests({Bearer(0)}, {[mimeType |-> Str("X")]}) :
                          create(r))
          /\ ENABLED (\E r \in UploadRequests({Bearer(0)}, {"resumable"}, {<<"X">>},
                                                {Alignment + 1}, {EmptyDict}) : upload(r))

\* this step answers a request to another endpoint than the progress endpoint
OtherAnswered == req'.op \in {"create", "get", "update", "delete", "query", "upload",
                              "refreshToken"}

\* C14: while a handler is suspended at the pause hook, a request to each of
\* the other endpoints can be answered, and is answered without a change to
\* the suspended handlers; the handler that waits answers nothing and leaves
\* the hook only when the resume signal has been delivered; and once it has
\* been delivered, every handler that waited answers eventually.
C14_OthersServed ==
    /\ [](HookSuspended => Servable)
    /\ [][/\ (HookSuspended /\ OtherAnswered) =>
               resp' # NoResponse /\ UNCHANGED <<suspended, hookVars>>
          /\ (Signalled /\ ~upload_chunk_wait) =>
               /\ AtHook(suspended') = AtHook(suspended) + 1
               /\ resp' = NoResponse
          /\ AtHook(suspended') < AtHook(suspended) => upload_chunk_wait]_vars
    /\ (upload_chunk_wait ~> ~PausedPending)

\* an item was read while a handler was waiting at the pause hook for a
\* resume signal that had not been delivered
C14_Witness ==
    /\ HookSuspended
    /\ ~upload_chunk_wait
    /\ req.op = "get"
    /\ resp.status = 200

(* ----------------------- properties of the items ----------------------- *)
\* the JSON bodies of updates that name the id or another field
IdUpdates ==
    { << <<"id", Str("f9")>> >>,
      << <<"name", Str("n")>> >> }

\* the life of the items: they are created, updated and deleted, and uploaded
\* in one chunk, while time passes
NextItems ==
    \/ \E r \in CreateRequests({Bearer(0)}, {[mimeType |-> Str("X")]}) : create(r)
    \/ \E r \in UpdateRequests({Bearer(0)}, IdUpdates) : update(r)
    \/ \E r \in DeleteRequests({Bearer(0)}) : delete(r)
    \/ \E r \in UploadRequests({Bearer(0)}, {"resumable"}, {<<"X">>}, {1}, {EmptyDict}) :
            upload(r)
    \/ \E r \in ProgressRequests({Bearer(0)}, SessionIds, WholeChunks) : uploadProgress(r)
    \/ Tick

SpecItems == Init /\ [][NextItems]_vars

\* C15: every stored item has the fields id, trashed and capabilities, and
\* its id is the id it is stored under.
C15_IdImmutable ==
    \A i \in DOMAIN items :
        /\ {"id", "trashed", "capabilities"} \subseteq DOMAIN items[i]
        /\ items[i]["id"] = Str(i)

\* the item that this step writes: the one a create or a final chunk stores,
\* or the one an update is applied to
Written ==
    IF req'.op \in {"create", "uploadChunk"} THEN resp'.id ELSE req'.id

\* this step writes an item: a create, an update that is applied, or the
\* final chunk of an upload
ItemWrite ==
    /\ req'.op \in {"create", "update", "uploadChunk"}
    /\ resp'.status = 200
    /\ checkDriveHeaders(req')

\* C16: a create, an update and the completion of an upload leave the item
\* they write with the time of the write as its modifiedTime.
C16_ModifiedTimeOnWrite ==
    [][ItemWrite =>
         /\ Has(items', Written)
         /\ items'[Written]["modifiedTime"] = timeToRfc3339String(now)]_vars

(* ------------------- properties of the upload session ------------------ *)
\* C17: while there is an upload session, next_start is the length of its
\* buffer, and next_start does not decrease as long as the session is the
\* same.
C17_NextStartIsLength ==
    /\ [](Started => upload_info["next_start"] = Received)
    /\ [][(Started /\ upload_info'["id"] = upload_info["id"]) =>
             upload_info'["next_start"] >= upload_info["next_start"]]_vars

\* C19: the buffer of every item that an upload has stored is as long as the
\* size the upload declared.
C19_CommittedBufferKeepsSize ==
    \A i \in commits \cap DOMAIN items :
        BytesLen(items[i]["bytes"]) = items[i]["size"][2]

\* this step answers the request of a handler that was suspended at readAll
BodyAnswered ==
    \E i \in 1..Len(suspended) :
        /\ suspended[i].at = "body"
        /\ suspended[i].r = req'
        /\ suspended' = Without(suspended, i)

\* C18: once a later startUpload has succeeded, a request to the progress
\* endpoint that names an earlier session is answered BadRequest and leaves
\* the new session and the store as they are, whether it arrives afterwards
\* or its handler was suspended meanwhile.
C18_StaleSessionRefused ==
    [][(ProgressAnswered /\ Started /\ req'.id # upload_info["id"]) =>
         /\ resp' = HTTPBadRequest
         /\ UNCHANGED <<items, upload_info>>]_vars

\* C20: of the handlers of chunk transfers to the session that have passed
\* the check of the start offset before any of them appends, the one that
\* finds the buffer no longer ending where its chunk starts is answered
\* BadRequest and leaves the buffer as it is.
C20_OneOfTwoAppends ==
    [][(BodyAnswered /\ req'.id = upload_info["id"] /\ Received # req'.range.start) =>
         /\ resp' = HTTPBadRequest
         /\ upload_info'["item"]["bytes"] = upload_info["item"]["bytes"]]_vars
====
